---- MODULE Spec2Model ----
(***************************************************************************)
(* jetpack-webpage: the tab navigation engine (Tab, lib/webpage/tabs.js,   *)
(* kept here as src/unnamed/part_003) driven by one page session (webPage, *)
(* second half of src/utils.js).                                           *)
(*                                                                         *)
(* The host (Firefox tabbrowser, the net-log package's NetLog and          *)
(* PageProgress, sdk/timers) is the environment: it delivers DOM events,   *)
(* progress callbacks and timer expiries in any order.  Tab creation and   *)
(* removal notify synchronously (TabOpen inside addTab, TabClose inside    *)
(* removeTab), so they are part of the caller's step.  Registering a       *)
(* browser that is registered replaces the registration.  A timer armed    *)
(* with delay 0 expires before any later host signal is delivered.         *)
(* browser.stop() may abort the document being loaded, whose               *)
(* DOMContentLoaded is then not delivered, or come too late for it; a      *)
(* document replaced by a later loadURI is not reported.  Documents of     *)
(* sub-frames are left out.                                                *)
(*                                                                         *)
(* Parts of the session that do not depend on the navigation are           *)
(* specified on their own: two sessions sharing the window's tab           *)
(* container (SessionsSpec), the selection of tabs by foreground()         *)
(* (SelectSpec, where TabSelect is dispatched while the selected tab is    *)
(* set or later), the authorization of requests (AuthSpec), the cookie     *)
(* jar (CookieSpec), the matching and parsing of cookies                   *)
(* (CookieModelSpec), the cookies two sessions send and receive            *)
(* (WireSpec) and the globals of the sandbox (SandboxSpec).  The older     *)
(* engine, TabTrait with its ProgressListener (src/unnamed/part_002), is   *)
(* specified on its own as well (TraitSpec).  Cookie,                      *)
(* parseCookie, setCookies, getCookies and setAuthHeaders come from a      *)
(* module that is not part of the sources at hand; they follow the         *)
(* documented behaviour and the repository's tests.  The text of the       *)
(* page is kept as the chunks appended, each named by the attempt whose    *)
(* interceptor delivered it.                                               *)
(***************************************************************************)
EXTENDS Naturals, Sequences, FiniteSets

\* ------------------------------------------------------------------ bounds
MaxOpens   == 3     \* page.open() calls of one run
MaxPending == 1     \* fullLoad timers armed at once (repeated load signals)
MaxTabs    == 4     \* tabs the window creates in one run of two sessions
MaxList    == 2     \* cookies in one list: assigned to cookies, or harvested
MaxChunks  == 2     \* data chunks of main documents kept in the page text
MaxSelects == 2     \* foreground() calls of a session, and TabSelect events,
                    \* awaited at once
MaxLoads   == 2     \* TabTrait: load() calls on the tab

Calls == 1 .. MaxOpens          \* ids of open() calls; open o issues load() o

Sessions == {1, 2}              \* two page sessions of one window

\* The URLs requests go to, told apart by what the authorization policy
\* reads: scheme, host and port.
Url(scheme, host, port) == [scheme |-> scheme, host |-> host, port |-> port]
Urls == {Url("http", "a", 80), Url("https", "a", 80), Url("http", "b", 80),
         Url("http", "a", 8080)}
AboutBlank == [scheme |-> "about", host |-> "blank", port |-> 0]

\* _settings.userName / .password: null, or the strings of the caller
Null == "null"
NoCredentials == [userName |-> Null, password |-> Null]
Credentials == [userName : {Null, "foo"}, password : {Null, "bar"}]

\* a request as the _request handler gets it: of session sess, to url, for the
\* main document or a sub-resource, with the Authorization header auth
NoHeader == << >>
NoRequest == [sess |-> 0, main |-> FALSE, url |-> AboutBlank, auth |-> NoHeader]

\* The URLs cookies are matched against, told apart by what the cookie model
\* reads: scheme, host and path.
Location(scheme, host, path) == [scheme |-> scheme, host |-> host, path |-> path]

\* no call of the cookie model yet; no request sent yet
NotApplied == [fn |-> "none"]
NothingSent == [sess |-> 0, url |-> AboutBlank, cookie |-> NoHeader]

\* The delays Tab.options may hold (any number >= 0 is accepted): zero, or
\* some positive number of milliseconds.  No order is fixed among timers of
\* positive delay: the delays are independent options, so loadTimeout and
\* loadWait are left positive without loss.
Delays == {"zero", "positive"}

\* Tab events of one navigation attempt (part_003:34-43), with the three
\* loadFail reasons told apart.
E_INIT       == "init"
E_START      == "start"
E_LOAD_START == "loadStart"
E_READY      == "ready"
E_LOAD       == "load"
E_FULL_LOAD  == "fullLoad"
FAIL_OPEN    == "loadFail:Unable to open URL"
FAIL_START   == "loadFail:Start timeout"
FAIL_LOAD    == "loadFail:Load timeout"

LoadFails   == {FAIL_OPEN, FAIL_START, FAIL_LOAD}
Terminal    == {E_FULL_LOAD} \cup LoadFails
PhaseEvents == {E_INIT, E_START, E_LOAD_START, E_READY, E_LOAD, E_FULL_LOAD}

VARIABLES
    options,        \* Tab.options: startTimeout, loadTimeout, loadWait
    tab,            \* Tab._tab / Tab._browser are set (TRUE) or null (FALSE)
    timeout,        \* Tab._timeout: the handle of a timer, NoTimer for null
    timers,         \* sdk/timers: the armed timers
    onOpenReady,    \* _onOpenReady listens for DOMContentLoaded on the browser
    readyL,         \* the _ready closures listening for DOMContentLoaded, in order
    netLog,         \* NetLog registration of the browser: attempt, 0 for none
    pageProgress,   \* PageProgress registration of the browser: attempt, 0 for none
    state,          \* webPage._state
    deferred,       \* the deferred of each open() call
    onceOpenReady,  \* trait.once('openReady') listeners of open() calls, in order
    onceFullLoad,   \* trait.once('fullLoad') listeners of open() calls
    onceLoadFail,   \* trait.once('loadFail') listeners of open() calls
    calls,          \* open() calls accepted so far
    doc,            \* the document the browser loads, DOMContentLoaded to come
    plainText,      \* webPage._plainText: the chunks appended, each named by
                    \* the attempt whose url it is the data of
    sandbox,        \* webPage._sandbox is set (TRUE) or null (FALSE)
    result,         \* what the latest step gave the caller: value, error, event
    jar,            \* webPage._cookies: the cookies of the session, in order
    jarResult,      \* what the latest cookie call gave: a value or the error
    tabHandle,      \* two sessions: Tab._tab of each, 0 for null
    winTabs,        \* two sessions: the tabs open in the window
    tabOpenL,       \* two sessions: the Tabs whose _onOpen listens for TabOpen
    tabCloseL,      \* two sessions: the Tabs whose onClose listens for TabClose
    tabsMade,       \* two sessions: tabs created so far, the latest tab's id
    sessEvent,      \* two sessions: what each Tab emitted in the latest step
    actor,          \* two sessions: whose call the latest step was, 0 for the user
    settings,       \* two sessions: _settings.userName and .password of each
    pageUrl,        \* two sessions: the location of the page in each one's tab
    request,        \* two sessions: the latest request a _request handler left
    applied,        \* cookie model: the latest call of check or parseCookie
    jars,           \* two sessions: webPage._cookies of each
    sent,           \* two sessions: the latest request with its Cookie header
    globals,        \* webPage._sandboxGlobals: null or the value assigned
    selectedTab,    \* two sessions: gBrowser.selectedTab, 0 for the user's tab
    selectL,        \* two sessions: the onSelect listeners of each on TabSelect
    tabSelects,     \* two sessions: TabSelect events the host has yet to dispatch
    foregrounds,    \* two sessions: the foreground() promises of each, unresolved
    selectEmits,    \* two sessions: the select events each Tab emitted in the
                    \* latest step
    tTab,           \* TabTrait: the tab is open
    tLoads,         \* TabTrait: load() calls so far
    tAttempt,       \* TabTrait: _load() calls so far; names _plistener
    tListeners,     \* TabTrait: the progress listeners on the browser
    tState,         \* TabTrait: ProgressListener.state of each listener
    tOnceStart,     \* TabTrait: once('start', _onLoadStart) listeners waiting
    tTimers,        \* TabTrait: the timers armed
    tTimeout,       \* TabTrait: _timeout, the handle recorded
    tDomL,          \* TabTrait: DOMContentLoaded listeners, in the order added
    tLoadL,         \* TabTrait: _onLoad listens for load on the window
    tSeen,          \* TabTrait: the events emitted since the latest _load()
    tLast,          \* TabTrait: the events the latest step emitted, in order
    obs,            \* history: the open() call and attempt observed, any one
    emitted,        \* history: the events the observed attempt's closures emitted
    last,           \* history: those of them the latest step emitted
    dead,           \* history: close() was called after the observed Tab.load()
    resolvedBy      \* history: the attempt whose event resolved the observed open()

engine == << options, tab, timeout, timers, onOpenReady, readyL, netLog,
           pageProgress, state, deferred, onceOpenReady, onceFullLoad,
           onceLoadFail, calls, doc, plainText, sandbox, result,
           obs, emitted, last, dead, resolvedBy >>

tabVars  == << tab, onOpenReady, readyL >>
pageVars == << state, deferred, onceOpenReady, onceFullLoad, onceLoadFail >>
sessVars == << plainText, sandbox >>

\* the state of the other components, which the tab engine leaves alone
winVars == << tabHandle, winTabs, tabOpenL, tabCloseL, tabsMade, sessEvent,
             actor >>

authVars == << settings, pageUrl, request >>

jarVars == << jar, jarResult >>

\* the selection of tabs in the window
selVars == << selectedTab, selectL, tabSelects, foregrounds, selectEmits >>

\* the TabTrait variant of the engine
traitVars == << tTab, tLoads, tAttempt, tListeners, tState, tOnceStart, tTimers,
               tTimeout, tDomL, tLoadL, tSeen, tLast >>

\* the cookie model applied, the cookies two sessions send and receive, the
\* globals of the sandbox, the selection of tabs and the TabTrait variant
restVars == << applied, jars, sent, globals, selVars, traitVars >>

aux == << jarVars, winVars, authVars, restVars >>

vars == << engine, aux >>

\* a step of the host: the caller is given nothing, the session keeps its own
Host == result' = "none" /\ UNCHANGED << sessVars, aux >>

\* documents of a browser: the initial one of a new tab, the about:blank of a
\* load() call, the url of an attempt
NoDoc == [kind |-> "none", att |-> 0]
InitialDoc == [kind |-> "initial", att |-> 0]
BlankDoc(a) == [kind |-> "blank", att |-> a]
UrlDoc(a) == [kind |-> "url", att |-> a]

Range(s) == {s[i] : i \in DOMAIN s}
Last(s) == s[Len(s)]

\* ------------------------------------------------------------------ timers
\* A timer is named by the closure it runs: startWait and loadWait of one
\* attempt are armed at most once at a time, fullLoad of one attempt may be
\* armed several times (n counts the copies).  This stands for the numeric
\* handle of sdk/timers.
NoTimer == [fn |-> "null", att |-> 0, delay |-> "null", n |-> 0]

Copies(ts, fn, a) == Cardinality({t \in ts : t.fn = fn /\ t.att = a})

\* the handle setTimeout(fn, delay) returns for attempt a's closure fn
Handle(ts, fn, a, delay) ==
    [fn |-> fn, att |-> a, delay |-> delay, n |-> Copies(ts, fn, a) + 1]

\* setTimeout(fn, delay)
SetTimeout(ts, fn, a, delay) == ts \cup {Handle(ts, fn, a, delay)}

\* clearTimeout(handle)
ClearTimeout(ts, h) == ts \ {h}

\* "if (this._timeout) { clearTimeout(this._timeout); this._timeout = null; }"
\* as onContentLoaded, onLoadFinished and _cleanUp have it
ClearOwn(ts) == IF timeout # NoTimer THEN ClearTimeout(ts, timeout) ELSE ts

\* A timer armed with delay 0 is due at once.
ZeroPending == \E t \in timers : t.delay = "zero"

\* A timer is due: no timer of delay 0 is kept waiting by one of longer delay
\* (of the copies of one closure, which are alike, the latest is taken).
Due(t) ==
    /\ t \in timers
    /\ t.delay = "zero" \/ ~ZeroPending
    /\ t.n = Copies(timers, t.fn, t.att)

\* ----------------------------------------------------------------- emitting
\* history of the observed attempt: a's closure emits ev
Seen(a, ev) ==
    /\ emitted' = IF a = obs THEN emitted \cup {ev} ELSE emitted
    /\ last' = IF a = obs THEN {ev} ELSE {}

Silent == last' = {} /\ UNCHANGED emitted

\* NetLog.unregisterBrowser / PageProgress.unregisterBrowser of _cleanUp, done
\* when there is a browser
Unregister(t, reg) == IF t THEN 0 ELSE reg

\* browser.stop() on a browser with document d pending: d is aborted or not
Stop(d) == {d, NoDoc}

\* Tab._cleanUp, listener of fullLoad, loadFail and error: clears the
\* recorded timeout and, when there is a browser, unregisters NetLog and
\* PageProgress.  ts are the armed timers when the event is emitted.
CleanUp(ts) ==
    /\ timers' = ClearOwn(ts)
    /\ timeout' = NoTimer
    /\ netLog' = Unregister(tab, netLog)
    /\ pageProgress' = Unregister(tab, pageProgress)
    /\ doc' \in IF tab THEN Stop(doc) ELSE {doc}

\* The listeners webPage.open() left on the event: each sets _state and
\* resolves its own deferred (a resolved deferred keeps its value).
Outcome(L, status, a) ==
    /\ state' = IF L # {} THEN "complete" ELSE state
    /\ deferred' = [o \in Calls |->
                      IF o \in L /\ deferred[o] = "pending" THEN status
                      ELSE deferred[o]]
    /\ resolvedBy' = IF obs \in L /\ deferred[obs] = "pending" THEN a
                     ELSE resolvedBy

\* emit(this, E_FULL_LOAD) from attempt a's closure
EmitFullLoad(a, ts) ==
    /\ CleanUp(ts)
    /\ Outcome(onceFullLoad, "success", a)
    /\ onceFullLoad' = {}
    /\ Seen(a, E_FULL_LOAD)
    /\ UNCHANGED << onceLoadFail, onceOpenReady >>

\* emit(this, E_LOAD_FAIL, reason) from attempt a's closure
EmitLoadFail(a, reason, ts) ==
    /\ CleanUp(ts)
    /\ Outcome(onceLoadFail, "fail", a)
    /\ onceLoadFail' = {}
    /\ Seen(a, reason)
    /\ UNCHANGED << onceFullLoad, onceOpenReady >>

Init ==
    /\ options \in [startTimeout : Delays, loadTimeout : {"positive"},
                    loadWait : {"positive"}]
    /\ tab = FALSE
    /\ timeout = NoTimer
    /\ timers = {}
    /\ onOpenReady = FALSE
    /\ readyL = << >>
    /\ netLog = 0
    /\ pageProgress = 0
    /\ state = "closed"
    /\ deferred = [o \in Calls |-> "none"]
    /\ onceOpenReady = << >>
    /\ onceFullLoad = {}
    /\ onceLoadFail = {}
    /\ calls = 0
    /\ doc = NoDoc
    /\ plainText = << >>
    /\ sandbox = FALSE
    /\ result = "none"
    /\ jar = << >>
    /\ jarResult = "none"
    /\ tabHandle = [s \in Sessions |-> 0]
    /\ winTabs = {}
    /\ tabOpenL = {}
    /\ tabCloseL = {}
    /\ tabsMade = 0
    /\ sessEvent = [s \in Sessions |-> "none"]
    /\ actor = 0
    /\ settings = [s \in Sessions |-> NoCredentials]
    /\ pageUrl = [s \in Sessions |-> AboutBlank]
    /\ request = NoRequest
    /\ applied = NotApplied
    /\ jars = [s \in Sessions |-> << >>]
    /\ sent = NothingSent
    /\ globals = Null
    /\ selectedTab = 0
    /\ selectL = [s \in Sessions |-> 0]
    /\ tabSelects = 0
    /\ foregrounds = [s \in Sessions |-> 0]
    /\ selectEmits = [s \in Sessions |-> 0]
    /\ tTab = FALSE
    /\ tLoads = 0
    /\ tAttempt = 0
    /\ tListeners = {}
    /\ tState = [l \in 1 .. MaxLoads |-> 0]
    /\ tOnceStart = 0
    /\ tTimers = {}
    /\ tTimeout = NoTimer
    /\ tDomL = << >>
    /\ tLoadL = FALSE
    /\ tSeen = {}
    /\ tLast = << >>
    /\ obs \in Calls
    /\ emitted = {}
    /\ last = {}
    /\ dead = FALSE
    /\ resolvedBy = 0

\* the state after construction with the default options, for the parts that
\* do not depend on the navigation
OneInit ==
    /\ Init
    /\ options.startTimeout = "positive"
    /\ obs = 1

\* --------------------------------------------------------------- Tab (part_003)
\* Tab.load(url): stops the browser, adds the _ready closure of this call as a
\* DOMContentLoaded listener and loads about:blank.
Load(rl, a) == Append(rl, a)

\* the attempts whose Tab.load() has been called
Loaded == {o \in 1 .. calls : o \notin Range(onceOpenReady)}

\* The delay _load arms startWait with.
StartDelay == options.startTimeout

\* _load of the attempts whose _ready closure fires, in listener order: each
\* registers NetLog, arms startWait into _timeout without clearing the handle
\* it holds, and registers PageProgress.
RECURSIVE RunLoads(_, _, _)
RunLoads(as, ts, h) ==
    IF as = << >> THEN [timers |-> ts, timeout |-> h]
    ELSE RunLoads(Tail(as),
                  SetTimeout(ts, "startWait", Head(as), StartDelay),
                  Handle(ts, "startWait", Head(as), StartDelay))

\* webPage._cleanUp
SessionCleanUp == plainText' = << >> /\ sandbox' = FALSE

\* webPage.open(url, callback), accepted: _state is not 'transfer'.
Open ==
    /\ calls < MaxOpens
    /\ state # "transfer"
    /\ LET o == calls + 1 IN
        /\ calls' = o
        /\ state' = "transfer"
        /\ deferred' = [deferred EXCEPT ![o] = "pending"]
        /\ onceFullLoad' = onceFullLoad \cup {o}
        /\ onceLoadFail' = onceLoadFail \cup {o}
        /\ IF ~tab
           THEN \* trait.once('openReady', load(url)); trait.open(): TabOpen
                /\ onceOpenReady' = Append(onceOpenReady, o)
                /\ tab' = TRUE
                /\ onOpenReady' = TRUE
                /\ doc' = InitialDoc
                /\ UNCHANGED readyL
           ELSE \* trait.load(url)
                /\ readyL' = Load(readyL, o)
                /\ doc' = BlankDoc(o)
                /\ UNCHANGED << onceOpenReady, tab, onOpenReady >>
    /\ SessionCleanUp
    /\ result' = "promise"
    /\ Silent
    /\ UNCHANGED << options, obs, timeout, timers, netLog, pageProgress, dead,
                    resolvedBy, aux >>

\* an open() that ran _cleanUp before it looked at _state
CleanUpFirst == SessionCleanUp

\* what a refused open() does to the session: the throw is its first statement
RefusedLeaves == UNCHANGED sessVars

\* webPage.open(url, callback), refused: a transfer is in progress.
OpenRefused ==
    /\ state = "transfer"
    /\ result' = "Transfer in progress"
    /\ RefusedLeaves
    /\ Silent
    /\ UNCHANGED << options, obs, tabVars, pageVars, timeout, timers,
                    netLog, pageProgress, calls, doc, dead, resolvedBy, aux >>

\* Tab.close() on an open tab: _cleanUp, then removeTab and its TabClose.
TabClose ==
    /\ timers' = ClearOwn(timers)
    /\ timeout' = NoTimer
    /\ netLog' = 0
    /\ pageProgress' = 0
    /\ tab' = FALSE

\* a close() that evaluated in the page without testing for a tab
CloseAsserts(t) == IF t THEN "closed:true" ELSE "webpage not opened"

\* what close() gives: 'closing' is emitted and the promise resolved, with true
\* when there was a tab to close and false when there was none
CloseResult(t) == IF t THEN "closed:true" ELSE "closed:false"

\* webPage.close().  The DOM listeners left on the removed browser go with it.
Close ==
    /\ state' = "closed"
    /\ IF tab
       THEN /\ TabClose
            /\ onOpenReady' = FALSE
            /\ readyL' = << >>
       ELSE UNCHANGED << timers, timeout, netLog, pageProgress, tab,
                         onOpenReady, readyL >>
    /\ doc' = NoDoc
    /\ SessionCleanUp
    /\ result' = CloseResult(tab)
    /\ dead' = (dead \/ obs \in Loaded)
    /\ Silent
    /\ UNCHANGED << options, obs, deferred, onceOpenReady, onceFullLoad,
                    onceLoadFail, calls, resolvedBy, aux >>

\* The browser reports DOMContentLoaded: _onOpenReady (emit openReady, whose
\* once-listeners call trait.load) and every _ready closure registered before
\* the event (each runs _load, which emits init) fire and are removed.
DOMContentLoaded ==
    /\ tab
    /\ doc # NoDoc
    /\ onOpenReady \/ readyL # << >>
    /\ ~ZeroPending
    /\ LET opened == IF onOpenReady THEN onceOpenReady ELSE << >>
           run == RunLoads(readyL, timers, timeout)
       IN
        /\ onOpenReady' = FALSE
        /\ onceOpenReady' = IF onOpenReady THEN << >> ELSE onceOpenReady
        /\ readyL' = opened
        /\ timers' = run.timers
        /\ timeout' = run.timeout
        /\ netLog' = IF readyL # << >> THEN Last(readyL) ELSE netLog
        /\ pageProgress' = IF readyL # << >> THEN Last(readyL) ELSE pageProgress
        /\ doc' = IF opened = << >> THEN NoDoc
                  ELSE IF readyL = << >> THEN BlankDoc(Last(opened))
                  ELSE UrlDoc(Last(readyL))
        /\ IF obs \in Range(readyL) THEN Seen(obs, E_INIT) ELSE Silent
    /\ Host
    /\ UNCHANGED << options, obs, tab, state, deferred, onceFullLoad,
                    onceLoadFail, calls, dead, resolvedBy >>

\* A progress callback reaches the closures PageProgress holds.
Signal ==
    /\ tab
    /\ pageProgress # 0
    /\ ~ZeroPending

\* progressOptions.onLoadStarted
OnLoadStarted ==
    /\ Signal
    /\ Seen(pageProgress, E_LOAD_START)
    /\ Host
    /\ UNCHANGED << options, obs, tabVars, pageVars, timeout, timers, netLog,
                    pageProgress, calls, doc, dead, resolvedBy >>

\* progressOptions.onTransferStarted
OnTransferStarted ==
    /\ Signal
    /\ Seen(pageProgress, E_START)
    /\ Host
    /\ UNCHANGED << options, obs, tabVars, pageVars, timeout, timers, netLog,
                    pageProgress, calls, doc, dead, resolvedBy >>

\* an onContentLoaded that left the recorded timeout armed
KeepsTimeout(ts) == ts

\* what onContentLoaded leaves of the armed timers before it emits
ContentLoadedClears(ts) == ClearOwn(ts)

\* progressOptions.onContentLoaded(status)
OnContentLoaded(status) ==
    /\ Signal
    /\ IF status
       THEN /\ Seen(pageProgress, E_READY)
            /\ timers' = SetTimeout(ContentLoadedClears(timers), "loadWait",
                                    pageProgress, options.loadTimeout)
            /\ timeout' = Handle(ContentLoadedClears(timers), "loadWait",
                                 pageProgress, options.loadTimeout)
       ELSE /\ timers' = ContentLoadedClears(timers)
            /\ timeout' = NoTimer
            /\ Silent
    /\ Host
    /\ UNCHANGED << options, obs, tabVars, pageVars, netLog, pageProgress,
                    calls, doc, dead, resolvedBy >>

\* what onLoadFinished leaves of the armed timers before it emits
LoadFinishedClears(ts) == ClearOwn(ts)

\* progressOptions.onLoadFinished(status)
OnLoadFinished(status) ==
    /\ Signal
    /\ IF status
       THEN /\ Copies(timers, "fullLoad", pageProgress) < MaxPending
            /\ Seen(pageProgress, E_LOAD)
            /\ timers' = SetTimeout(LoadFinishedClears(timers), "fullLoad",
                                    pageProgress, options.loadWait)
            /\ timeout' = NoTimer
            /\ UNCHANGED << pageVars, netLog, pageProgress, doc, resolvedBy >>
       ELSE EmitLoadFail(pageProgress, FAIL_OPEN, LoadFinishedClears(timers))
    /\ Host
    /\ UNCHANGED << options, obs, tabVars, calls, dead >>

\* startWait: the start timeout expires
StartWaitOf(t) ==
    /\ t.fn = "startWait"
    /\ Due(t)
    /\ EmitLoadFail(t.att, FAIL_START, timers \ {t})
    /\ Host
    /\ UNCHANGED << options, obs, tabVars, calls, dead >>

StartWait == \E t \in timers : StartWaitOf(t)

\* loadWait: the load timeout expires
LoadWait ==
    \E t \in timers :
        /\ t.fn = "loadWait"
        /\ Due(t)
        /\ EmitLoadFail(t.att, FAIL_LOAD, timers \ {t})
        /\ Host
        /\ UNCHANGED << options, obs, tabVars, calls, dead >>

\* fullLoad: the loadWait delay after load has passed
FullLoad ==
    \E t \in timers :
        /\ t.fn = "fullLoad"
        /\ Due(t)
        /\ EmitFullLoad(t.att, timers \ {t})
        /\ Host
        /\ UNCHANGED << options, obs, tabVars, calls, dead >>

\* netLogOptions.onRequest: NetLog reports a request of the registered
\* browser; resourceRequested is relayed to the session's listeners.
OnRequest ==
    /\ tab
    /\ netLog # 0
    /\ ~ZeroPending
    /\ result' = "resourceRequested"
    /\ Silent
    /\ UNCHANGED << options, obs, tabVars, pageVars, sessVars, timeout, timers,
                    netLog, pageProgress, calls, doc, dead, resolvedBy, aux >>

\* what the session's resourceReceived listener leaves of the page text when
\* a chunk of the main document of attempt a's url arrives
Appended(text, a) == Append(text, a)

\* netLogOptions.onResponse: resourceReceived is relayed; the session appends
\* the data of the main document (response.id 0, stage 'data') to _plainText.
\* The url the browser loads is that of the _load that registered last,
\* unless a load() call has asked for about:blank since: no data comes then.
OnResponse(body) ==
    /\ tab
    /\ netLog # 0
    /\ ~ZeroPending
    /\ body => (doc.kind # "blank" /\ Len(plainText) < MaxChunks)
    /\ result' = "resourceReceived"
    /\ plainText' = IF body THEN Appended(plainText, netLog) ELSE plainText
    /\ Silent
    /\ UNCHANGED << options, obs, tabVars, pageVars, sandbox, timeout, timers,
                    netLog, pageProgress, calls, doc, dead, resolvedBy, aux >>

\* The operations of a session that need a tab; the first four go through
\* the sandbox getter, which creates the sandbox.
SandboxOps == {"evaluate", "evaluateAsync", "includeJS", "injectJS"}
TabOps == SandboxOps \cup {"renderBase64", "plainText", "url", "foreground"}

\* an _assertTab that let every call pass
NoAssert(t) == "ok"

\* webPage._assertTab: throws when the session has no tab
AssertTab(t) == IF t THEN "ok" ELSE "webpage not opened"

\* evaluate, evaluateAsync, includeJS, injectJS, renderBase64, plainText, url,
\* foreground: _assertTab first, then the operation on the tab.
TabOp(op) ==
    /\ result' = AssertTab(tab)
    /\ sandbox' = IF AssertTab(tab) = "ok" /\ op \in SandboxOps THEN TRUE
                  ELSE sandbox
    /\ Silent
    /\ UNCHANGED << options, obs, tabVars, pageVars, plainText, timeout, timers,
                    netLog, pageProgress, calls, doc, dead, resolvedBy, aux >>

Next ==
    \/ Open
    \/ OpenRefused
    \/ Close
    \/ OnRequest
    \/ \E body \in BOOLEAN : OnResponse(body)
    \/ \E op \in TabOps : TabOp(op)
    \/ DOMContentLoaded
    \/ OnLoadStarted
    \/ OnTransferStarted
    \/ \E status \in BOOLEAN : OnContentLoaded(status)
    \/ \E status \in BOOLEAN : OnLoadFinished(status)
    \/ StartWait
    \/ LoadWait
    \/ FullLoad

Spec == Init /\ [][Next]_vars

\* The host lets every armed timer expire, settles every document it was
\* asked to load and ends every load it reports on.
Fairness ==
    /\ WF_vars(StartWait)
    /\ WF_vars(LoadWait)
    /\ WF_vars(FullLoad)
    /\ WF_vars(DOMContentLoaded)
    /\ WF_vars(\E status \in BOOLEAN : OnLoadFinished(status))

FairSpec == Init /\ [][Next]_vars /\ Fairness

\* The host lets every armed timer expire and settles the blank document; the
\* progress signals of a navigation come or not, as the host pleases.
TimerFairness ==
    /\ WF_vars(StartWait)
    /\ WF_vars(LoadWait)
    /\ WF_vars(FullLoad)
    /\ WF_vars(DOMContentLoaded)

TimerFairSpec == Init /\ [][Next]_vars /\ TimerFairness

\* --------------------------------------------- sandbox globals (utils.js)
\* what callers assign to globals
GlobalsValues == {"fooVar", "test"}

\* a globals setter that never refused
NeverRefused(sb) == FALSE

\* set globals(value) refuses when _sandbox is not null
Refused(sb) == sb

\* page.globals = value
SetGlobals(value) ==
    /\ result' = IF Refused(sandbox)
                 THEN "Cannot add globals after the first evaluation call"
                 ELSE "undefined"
    /\ globals' = IF Refused(sandbox) THEN globals ELSE value
    /\ Silent
    /\ UNCHANGED << options, obs, tabVars, pageVars, sessVars, timeout, timers,
                    netLog, pageProgress, calls, doc, dead, resolvedBy,
                    jarVars, winVars, authVars, applied, jars, sent, selVars,
                    traitVars >>

\* The session with its globals: the calls of the caller, the globals setter
\* among them, on a host whose pages settle about:blank and never start, so
\* that every open() ends by the start timeout.  The steps of the host left
\* out change neither the tab nor the sandbox.
SandboxNext ==
    \/ Open
    \/ OpenRefused
    \/ Close
    \/ \E op \in TabOps : TabOp(op)
    \/ \E value \in GlobalsValues : SetGlobals(value)
    \/ DOMContentLoaded
    \/ StartWait

SandboxSpec == OneInit /\ [][SandboxNext]_vars

\* ------------------------------------------------- two sessions, one window
\* Each session has its own Tab; the Tabs share the window's tab container,
\* on which Tab.open and Tab.close listen for TabOpen and TabClose.  The
\* container delivers an event to every listener registered when it is
\* dispatched.  The user opens and closes tabs of their own.

\* an _onOpen that stayed on the container after it was called
OnOpenStays(L) == L

\* the TabOpen listeners left after a dispatch to L: _onOpen removes itself
OnOpenRemoved(L) == {}

\* the TabClose listeners left after a dispatch to L: onClose removes itself
OnCloseRemoved(L) == {}

\* TabOpen of tab t reaches the listeners L: each _onOpen takes the event's
\* target as its tab and emits open
DispatchTabOpen(L, t) ==
    /\ tabHandle' = [s \in Sessions |-> IF s \in L THEN t ELSE tabHandle[s]]
    /\ sessEvent' = [s \in Sessions |-> IF s \in L THEN "open" ELSE "none"]
    /\ tabOpenL' = OnOpenRemoved(L)

\* TabClose reaches the listeners L: each onClose drops its tab and emits close
DispatchTabClose(L) ==
    /\ tabHandle' = [s \in Sessions |-> IF s \in L THEN 0 ELSE tabHandle[s]]
    /\ sessEvent' = [s \in Sessions |-> IF s \in L THEN "close" ELSE "none"]
    /\ tabCloseL' = OnCloseRemoved(L)

\* gBrowser.addTab(): the window creates a tab and dispatches TabOpen
AddTab(L) ==
    /\ tabsMade < MaxTabs
    /\ tabsMade' = tabsMade + 1
    /\ winTabs' = winTabs \cup {tabsMade + 1}
    /\ DispatchTabOpen(L, tabsMade + 1)

\* gBrowser.removeTab(t): the window removes the tab and dispatches TabClose
RemoveTab(L, t) ==
    /\ winTabs' = winTabs \ {t}
    /\ DispatchTabClose(L)

\* Tab.open() of session s, called by its open() when it has no tab
SessionOpen(s) ==
    /\ tabHandle[s] = 0
    /\ AddTab(tabOpenL \cup {s})
    /\ actor' = s
    /\ UNCHANGED << tabCloseL, engine, jarVars, authVars,
                    restVars >>

\* Tab.close() of session s
SessionClose(s) ==
    /\ IF tabHandle[s] # 0
       THEN RemoveTab(tabCloseL \cup {s}, tabHandle[s])
       ELSE /\ sessEvent' = [o \in Sessions |-> IF o = s THEN "close" ELSE "none"]
            /\ UNCHANGED << tabHandle, winTabs, tabCloseL >>
    /\ actor' = s
    /\ UNCHANGED << tabOpenL, tabsMade, engine, jarVars, authVars,
                    restVars >>

\* the user opens a tab
UserOpen ==
    /\ AddTab(tabOpenL)
    /\ actor' = 0
    /\ UNCHANGED << tabCloseL, engine, jarVars, authVars,
                    restVars >>

\* the user closes a tab of their own
UserClose ==
    /\ \E t \in winTabs :
          /\ \A s \in Sessions : tabHandle[s] # t
          /\ RemoveTab(tabCloseL, t)
    /\ actor' = 0
    /\ UNCHANGED << tabOpenL, tabsMade, engine, jarVars, authVars,
                    restVars >>

SessionsNext ==
    \/ \E s \in Sessions : SessionOpen(s)
    \/ \E s \in Sessions : SessionClose(s)
    \/ UserOpen
    \/ UserClose

SessionsSpec == OneInit /\ [][SessionsNext]_vars

\* ------------------------------------------------ selecting tabs (part_003)
\* Tab.select, called by foreground() of a session.  The onSelect listeners
\* are on the window's tab container and are called for the TabSelect of any
\* tab.  The host dispatches TabSelect when the selected tab changes: while
\* selectedTab is being set, or later.

\* an onSelect that stayed on the container after it was called
OnSelectStays(L) == L

\* the TabSelect listeners left after a dispatch to L: onSelect removes itself
OnSelectRemoved(L) == [s \in Sessions |-> 0]

\* TabSelect reaches the listeners L, with P the foreground() promises
\* unresolved: each onSelect emits select, and the first select of a Tab
\* resolves the promises of its session
DispatchTabSelect(L, P) ==
    /\ selectEmits' = L
    /\ selectL' = OnSelectRemoved(L)
    /\ foregrounds' = [s \in Sessions |-> IF L[s] > 0 THEN 0 ELSE P[s]]

\* gBrowser.selectedTab = t with the listeners L: the TabSelect it causes is
\* dispatched at once or left to be dispatched
SetSelectedTab(t, L, P) ==
    /\ selectedTab' = t
    /\ \/ DispatchTabSelect(L, P) /\ UNCHANGED tabSelects
       \/ /\ tabSelects < MaxSelects
          /\ tabSelects' = tabSelects + 1
          /\ selectL' = L
          /\ foregrounds' = P
          /\ selectEmits' = [s \in Sessions |-> 0]

\* webPage.foreground() of session s: _assertTab, a once('select') listener
\* that resolves the promise, then Tab.select()
Foreground(s) ==
    /\ tabHandle[s] # 0
    /\ foregrounds[s] < MaxSelects
    /\ IF selectedTab = tabHandle[s]
       THEN /\ selectEmits' = [o \in Sessions |-> IF o = s THEN 1 ELSE 0]
            /\ foregrounds' = [foregrounds EXCEPT ![s] = 0]
            /\ UNCHANGED << selectedTab, selectL, tabSelects >>
       ELSE SetSelectedTab(tabHandle[s],
                           [selectL EXCEPT ![s] = selectL[s] + 1],
                           [foregrounds EXCEPT ![s] = foregrounds[s] + 1])
    /\ UNCHANGED << engine, jarVars, winVars, authVars, applied, jars, sent,
                    globals, traitVars >>

\* the user selects a tab of the window
UserSelect(t) ==
    /\ t # selectedTab
    /\ SetSelectedTab(t, selectL, foregrounds)
    /\ UNCHANGED << engine, jarVars, winVars, authVars, applied, jars, sent,
                    globals, traitVars >>

\* the host dispatches a TabSelect that was left to be dispatched
TabSelect ==
    /\ tabSelects > 0
    /\ tabSelects' = tabSelects - 1
    /\ DispatchTabSelect(selectL, foregrounds)
    /\ UNCHANGED << selectedTab, engine, jarVars, winVars, authVars, applied,
                    jars, sent, globals, traitVars >>

SelectNext ==
    \/ \E s \in Sessions : SessionOpen(s)
    \/ \E s \in Sessions : Foreground(s)
    \/ \E t \in winTabs \cup {0} : UserSelect(t)
    \/ TabSelect

SelectSpec == OneInit /\ [][SelectNext]_vars

\* the host dispatches every TabSelect it owes
FairSelectSpec == SelectSpec /\ WF_vars(TabSelect)

\* -------------------------------------------------- authorization (utils.js)
\* base64 of a string, kept as the string under its encoding
Base64(str) == << "base64", str >>

\* the Authorization header of Basic authentication
Basic(user, pass) == << "Basic", Base64(<< user, ":", pass >>) >>

SameOrigin(u, v) ==
    u.scheme = v.scheme /\ u.host = v.host /\ u.port = v.port

\* setAuthHeaders(request, url, userName, password): the Authorization header
\* it leaves on the request.  Any header the request came with is cleared;
\* with no user name and no password nothing is attached; the request of the
\* main document is given the credentials; any other request is given them
\* when its scheme, host and port are those of the base url.
SetAuthHeaders(req, base, user, pass) ==
    IF user = Null /\ pass = Null THEN NoHeader
    ELSE IF req.main \/ SameOrigin(req.url, base) THEN Basic(user, pass)
    ELSE NoHeader

\* a _request handler that read the settings of the first session
FirstSettings(s) == settings[1]

\* this.settings of the session whose Tab emitted _request
OwnSettings(s) == settings[s]

\* the _request listener of session s: authorization from its own settings,
\* with the location of its own page as the base url
OnModifyRequest(s, req) ==
    request' = [req EXCEPT !.auth =
                   SetAuthHeaders(req, pageUrl[s], OwnSettings(s).userName,
                                  OwnSettings(s).password)]

\* what the host puts on a request before _request is emitted: nothing, or
\* credentials it remembers
HostHeaders == {NoHeader, Basic("foo", "bar")}

\* page.settings.userName = ..., page.settings.password = ...
SetCredentials(s, c) ==
    /\ settings' = [settings EXCEPT ![s] = c]
    /\ UNCHANGED << pageUrl, request, engine, jarVars, winVars,
                    restVars >>

\* The tab of session s requests the main document at u; the host then makes
\* u the location of the page.
MainRequest(s, u, h) ==
    /\ OnModifyRequest(s, [sess |-> s, main |-> TRUE, url |-> u, auth |-> h])
    /\ pageUrl' = [pageUrl EXCEPT ![s] = u]
    /\ UNCHANGED << settings, engine, jarVars, winVars,
                    restVars >>

\* The page of session s requests a sub-resource at u.
SubRequest(s, u, h) ==
    /\ pageUrl[s] # AboutBlank
    /\ OnModifyRequest(s, [sess |-> s, main |-> FALSE, url |-> u, auth |-> h])
    /\ UNCHANGED << settings, pageUrl, engine, jarVars, winVars,
                    restVars >>

AuthNext ==
    \/ \E s \in Sessions, c \in Credentials : SetCredentials(s, c)
    \/ \E s \in Sessions, u \in Urls, h \in HostHeaders : MainRequest(s, u, h)
    \/ \E s \in Sessions, u \in Urls, h \in HostHeaders : SubRequest(s, u, h)

AuthSpec == OneInit /\ [][AuthNext]_vars

\* ---------------------------------------------------- cookie jar (utils.js)
\* The fields a caller or a Set-Cookie header gives for a cookie; Null is a
\* field left out.
CookieNames == {"foo", "woot"}
CookieValues == {"bar", "foo2"}

\* what callers pass to addCookie and put in the lists assigned to cookies
CallerCookies ==
    [name : CookieNames \cup {Null}, value : CookieValues \cup {Null},
     domain : {".example.com", Null}, path : {Null}, httponly : {Null},
     secure : {Null}]

\* what getCookies(response) yields: parsed Set-Cookie headers, the domain
\* taken from the response's host, httponly as the header said
HarvestedCookies ==
    [name : CookieNames, value : CookieValues, domain : {"localhost"},
     path : {Null}, httponly : {"false"}, secure : {"false"}]

\* Cookie(fields) throws for fields without a name, a value or a domain
ValidCookie(f) == f.name # Null /\ f.value # Null /\ f.domain # Null

\* Cookie(fields) for valid fields: the cookie with the defaults filled in
Cookie(f) ==
    [name |-> f.name, value |-> f.value, domain |-> f.domain,
     path |-> IF f.path = Null THEN "/" ELSE f.path,
     httponly |-> IF f.httponly = Null THEN TRUE ELSE f.httponly = "true",
     secure |-> IF f.secure = Null THEN FALSE ELSE f.secure = "true",
     expires |-> Null]

\* the lists of at most MaxList elements of S
Lists(S) == UNION {[1 .. n -> S] : n \in 0 .. MaxList}

\* an addCookie that kept the cookies of the same name
KeepsAll(j, n) == j

\* this._cookies.filter(v => v.name !== cookie.name)
WithoutName(j, n) == SelectSeq(j, LAMBDA v : v.name # n)

\* an addCookie that filtered the jar before it built the cookie
FilteredFirst(j, f) == WithoutName(j, f.name)

\* the jar after addCookie threw: Cookie(cookie) is its first statement
AfterInvalid(j, f) == j

\* the jar after addCookie(f) on jar j
AddedTo(j, f) ==
    IF ValidCookie(f) THEN Append(WithoutName(j, f.name), Cookie(f))
    ELSE AfterInvalid(j, f)

\* webPage.addCookie(cookie)
AddCookie(f) ==
    /\ jar' = AddedTo(jar, f)
    /\ jarResult' = IF ValidCookie(f) THEN "true" ELSE "InvalidCookie"
    /\ UNCHANGED << engine, winVars, authVars, restVars >>

\* the _response listener: every cookie of the response goes through addCookie
RECURSIVE AddedAll(_, _)
AddedAll(j, fs) ==
    IF fs = << >> THEN j ELSE AddedAll(AddedTo(j, Head(fs)), Tail(fs))

Harvest(fs) ==
    /\ fs # << >>
    /\ jar' = AddedAll(jar, fs)
    /\ jarResult' = "none"
    /\ UNCHANGED << engine, winVars, authVars, restVars >>

\* webPage.clearCookies()
ClearCookies ==
    /\ jar' = << >>
    /\ jarResult' = "undefined"
    /\ UNCHANGED << engine, winVars, authVars, restVars >>

\* webPage.deleteCookie(name): the filter callback reads 'cookie', which is not
\* defined; it is called once the jar has a cookie
DeleteCookie(n) ==
    /\ jarResult' = IF jar = << >> THEN "undefined" ELSE "ReferenceError"
    /\ UNCHANGED << jar, engine, winVars, authVars, restVars >>

\* a cookies setter whose catch left the jar as the failed loop left it
NotRestored(old, cur) == cur

\* the catch of the cookies setter: this._cookies = old
Restored(old, cur) == old

\* values.forEach(function(v) { this.addCookie(v); }) in the cookies setter:
\* the callback is not bound, 'this' is undefined in it, so the call on the
\* first element throws a TypeError before addCookie is reached
ForEachAdd(j, values) ==
    IF values = << >> THEN [jar |-> j, error |-> "none"]
    ELSE [jar |-> j, error |-> "TypeError"]

\* page.cookies = values
SetCookies(values) ==
    LET old == jar
        run == ForEachAdd(<< >>, values)
    IN
     /\ jar' = IF run.error = "none" THEN run.jar ELSE Restored(old, run.jar)
     /\ jarResult' = IF run.error = "none" THEN "undefined" ELSE run.error
     /\ UNCHANGED << engine, winVars, authVars, restVars >>

CookieNext ==
    \/ \E f \in CallerCookies : AddCookie(f)
    \/ \E fs \in Lists(HarvestedCookies) : Harvest(fs)
    \/ ClearCookies
    \/ \E n \in CookieNames : DeleteCookie(n)
    \/ \E values \in Lists(CallerCookies) : SetCookies(values)

CookieSpec == OneInit /\ [][CookieNext]_vars

\* ------------------------------------------------ cookie model (webpage/utils)
\* Hosts, domains and paths are strings; they are compared by their
\* characters, taken here in the runs the strings in use share.
Chars(str) ==
    CASE str = "/" -> << "/" >>
      [] str = "/test/" -> << "/", "test", "/" >>
      [] str = "/test/foo" -> << "/", "test", "/", "foo" >>
      [] str = "/cookie" -> << "/", "cookie" >>
      [] str = ".example.com" -> << ".", "example", ".", "com" >>
      [] str = "example.com" -> << "example", ".", "com" >>
      [] str = "www.example.com" -> << "www", ".", "example", ".", "com" >>
      [] str = "images.example.com" -> << "images", ".", "example", ".", "com" >>
      [] str = "www.testexample.com" ->
             << "www", ".", "test", "example", ".", "com" >>
      [] str = ".example.org" -> << ".", "example", ".", "org" >>
      [] str = "example.org" -> << "example", ".", "org" >>
      [] str = "www.example.org" -> << "www", ".", "example", ".", "org" >>
      [] str = "localhost" -> << "localhost" >>

IsPrefix(p, s) == Len(p) <= Len(s) /\ SubSeq(s, 1, Len(p)) = p
IsSuffix(p, s) == Len(p) <= Len(s) /\ SubSeq(s, Len(s) - Len(p) + 1, Len(s)) = p

\* a domain rule that looks for the domain, its dot dropped, at the end of the
\* host
EndsWith(domain, host) ==
    LET d == Chars(domain) IN
    IsSuffix(IF Head(d) = "." THEN Tail(d) ELSE d, Chars(host))

\* the domain rule: a domain with a leading dot matches the host of that name
\* and the hosts that end with the domain, dot included; a domain without one
\* matches the host of that name only
DomainMatch(domain, host) ==
    LET d == Chars(domain)
        h == Chars(host)
    IN  IF Head(d) = "." THEN h = Tail(d) \/ IsSuffix(d, h) ELSE h = d

\* a path rule that wants the path of the url to be the cookie's
SamePath(path, urlPath) == path = urlPath

\* the path rule: the path of the url starts with the cookie's path
PathMatch(path, urlPath) == IsPrefix(Chars(path), Chars(urlPath))

\* cookie.check(url): the cookie is to be sent to url
check(c, u) ==
    /\ DomainMatch(c.domain, u.host)
    /\ PathMatch(c.path, u.path)
    /\ c.secure => u.scheme = "https"

\* A Set-Cookie header: the name=value pair, then its attributes, each a key
\* and a value (empty for a flag), spelled as the server spells them.
Header(pair, path, domain, secure, httponly) ==
    << pair >>
      \o (IF path = Null THEN << >> ELSE << << "path", path >> >>)
      \o (IF domain = Null THEN << >> ELSE << << "domain", domain >> >>)
      \o (IF secure = Null THEN << >> ELSE << << secure, "" >> >>)
      \o (IF httponly = Null THEN << >> ELSE << << httponly, "" >> >>)

\* attribute keys are read without regard to case
Lower(key) ==
    CASE key = "Secure" -> "secure"
      [] key = "HttpOnly" -> "httponly"
      [] key = "Path" -> "path"
      [] OTHER -> key

\* the attributes of header h spelled key, whatever the case
Attrs(h, key) == SelectSeq(Tail(h), LAMBDA a : Lower(a[1]) = key)

\* the value of attribute key of header h, Null when the header has none
Attr(h, key) == IF Attrs(h, key) = << >> THEN Null ELSE Attrs(h, key)[1][2]

\* a parser that takes the secure attribute as the header has it
SecureAsSent(h, u) == Attrs(h, "secure") # << >>

\* secure of a parsed cookie: the attribute counts in an https response only
SecureOf(h, u) == Attrs(h, "secure") # << >> /\ u.scheme = "https"

\* the fields parseCookie(header, url) reads from a Set-Cookie header of a
\* response from url
ParsedFields(h, u) ==
    [name |-> h[1][1], value |-> h[1][2],
     domain |-> IF Attr(h, "domain") = Null THEN u.host ELSE Attr(h, "domain"),
     path |-> Attr(h, "path"),
     httponly |-> IF Attrs(h, "httponly") # << >> THEN "true" ELSE "false",
     secure |-> IF SecureOf(h, u) THEN "true" ELSE "false"]

\* parseCookie(header, url)
parseCookie(h, u) == Cookie(ParsedFields(h, u))

\* the urls, cookies and headers the cookie model is applied to
CheckUrls ==
    {Location(s, h, p) :
        s \in {"http", "https"},
        h \in {"example.com", "www.example.com", "images.example.com",
               "www.testexample.com", "example.org", "www.example.org"},
        p \in {"/", "/test/", "/test/foo"}}

CheckCookies ==
    [name : {"test"}, value : {"1"}, domain : {".example.com", "example.org"},
     path : {Null, "/test/"}, httponly : {Null}, secure : {Null, "true"}]

ParseUrls ==
    {Location(s, h, "/") : s \in {"http", "https"},
                           h \in {"www.example.org", "localhost"}}

ParseHeaders ==
    {Header(<< "W", "1" >>, p, d, s, h) :
        p \in {Null, "/test/"}, d \in {Null, ".example.org"},
        s \in {Null, "secure", "Secure"}, h \in {Null, "HttpOnly"}}

\* Cookie(f).check(u) is called
CheckCookie(f, u) ==
    /\ applied' = [fn |-> "check", cookie |-> Cookie(f), url |-> u,
                   value |-> check(Cookie(f), u)]
    /\ UNCHANGED << engine, jarVars, winVars, authVars, jars, sent, globals,
                    selVars, traitVars >>

\* parseCookie(h, u) is called
ParseCookie(h, u) ==
    /\ applied' = [fn |-> "parseCookie", header |-> h, url |-> u,
                   value |-> parseCookie(h, u)]
    /\ UNCHANGED << engine, jarVars, winVars, authVars, jars, sent, globals,
                    selVars, traitVars >>

CookieModelNext ==
    \/ \E f \in CheckCookies, u \in CheckUrls : CheckCookie(f, u)
    \/ \E h \in ParseHeaders, u \in ParseUrls : ParseCookie(h, u)

CookieModelSpec == OneInit /\ [][CookieModelNext]_vars

\* ------------------------------------- cookies of two sessions (utils.js)
\* Each session keeps its own jar; its _request listener puts the Cookie
\* header on the requests of its tab, its _response listener harvests the
\* Set-Cookie headers of the responses to its tab.

\* the urls the sessions load, the cookies their callers add and the
\* Set-Cookie headers the servers answer with
WireUrls ==
    {Location("http", "localhost", "/"), Location("http", "localhost", "/cookie"),
     Location("http", "www.example.com", "/")}

WireCookies ==
    {[name |-> "foo", value |-> "bar", domain |-> ".example.com",
      path |-> Null, httponly |-> Null, secure |-> Null],
     [name |-> "woot", value |-> "foo2", domain |-> "localhost",
      path |-> Null, httponly |-> Null, secure |-> Null]}

WireHeaders == {Header(<< "myCookie", "foo-bar" >>, "/cookie", Null, Null, Null)}

\* the Cookie header of the cookies cs: 'name=value; name=value'
RECURSIVE Serialize(_)
Serialize(cs) ==
    IF cs = << >> THEN NoHeader
    ELSE IF Len(cs) = 1 THEN << cs[1].name, "=", cs[1].value >>
    ELSE << cs[1].name, "=", cs[1].value, "; " >> \o Serialize(Tail(cs))

\* setCookies(request, cookies): the Cookie header it leaves on a request to
\* u, made of the cookies that are to be sent to u
setCookies(u, cookies) == Serialize(SelectSeq(cookies, LAMBDA c : check(c, u)))

\* getCookies(response): the cookies of the Set-Cookie headers hs of a
\* response from u
getCookies(hs, u) == [i \in DOMAIN hs |-> ParsedFields(hs[i], u)]

\* a _request listener that read the jar of the first session
FirstJar(s) == jars[1]

\* this._cookies of the session whose Tab emitted _request
OwnJar(s) == jars[s]

\* a _response listener that added to the jar of the first session
FirstSession(s) == 1

\* the session whose addCookie the _response listener of session s calls:
\* the listener and its forEach callback are bound to the session itself
Receiver(s) == s

\* page.addCookie(f) of session s
PageAddCookie(s, f) ==
    /\ jars' = [jars EXCEPT ![s] = AddedTo(jars[s], f)]
    /\ UNCHANGED << sent, applied, globals, selVars, traitVars, engine,
                    jarVars, winVars, authVars >>

\* the _request listener of session s, for a request of its tab to u
PageRequest(s, u) ==
    /\ sent' = [sess |-> s, url |-> u, cookie |-> setCookies(u, OwnJar(s))]
    /\ UNCHANGED << jars, applied, globals, selVars, traitVars, engine,
                    jarVars, winVars, authVars >>

\* the _response listener of session s, for a response from u to its tab
\* with the Set-Cookie headers hs
PageResponse(s, u, hs) ==
    /\ jars' = [jars EXCEPT ![Receiver(s)] =
                   AddedAll(jars[Receiver(s)], getCookies(hs, u))]
    /\ UNCHANGED << sent, applied, globals, selVars, traitVars, engine,
                    jarVars, winVars, authVars >>

WireNext ==
    \/ \E s \in Sessions, f \in WireCookies : PageAddCookie(s, f)
    \/ \E s \in Sessions, u \in WireUrls : PageRequest(s, u)
    \/ \E s \in Sessions, u \in WireUrls, hs \in Lists(WireHeaders) :
          PageResponse(s, u, hs)

WireSpec == OneInit /\ [][WireNext]_vars

\* ------------------------------------------- the TabTrait variant (part_002)
\* The older engine: one trait object, a ProgressListener per _load() whose
\* state guards the events it emits, and timers armed by the listeners of
\* start and DOMContentLoaded.  once(type, f) of sdk/deprecated/events adds a
\* new self-removing listener at every call; addEventListener of one function
\* twice adds it once.  A state change reaches the registered listeners one
\* at a time.  The interceptor registration of _load is left out here.

\* nsIWebProgressListener state bits that onStateChange looks at
StateBits ==
    {"STATE_TRANSFERRING", "STATE_IS_DOCUMENT", "STATE_STOP",
     "STATE_IS_NETWORK", "STATE_IS_WINDOW", "STATE_START"}

Flags == SUBSET StateBits

\* ProgressListener.START and ProgressListener.INIT
PL_START == 1
PL_INIT == 2

isStart(flags) == {"STATE_TRANSFERRING", "STATE_IS_DOCUMENT"} \subseteq flags

isLoaded(flags) ==
    {"STATE_STOP", "STATE_IS_NETWORK", "STATE_IS_WINDOW"} \subseteq flags

isLoading(flags) == {"STATE_START", "STATE_IS_WINDOW"} \subseteq flags

\* an onStateChange that emitted start whatever its state
Unguarded(st) == TRUE

\* this.state < this.START
BeforeStart(st) == st < PL_START

\* this.state == this.START && this.state < this.INIT
AtStart(st) == st = PL_START /\ st < PL_INIT

\* an event emitted: by a listener, or for the attempt a timer was armed in
Ev(ev, by) == [ev |-> ev, by |-> by]

\* "if (this._timeout) { clearTimeout(this._timeout); this._timeout = null; }"
TClear(ts, h) == IF h # NoTimer THEN ClearTimeout(ts, h) ELSE ts

\* TabTrait._cleanUp, listener of load, loadFail and error: the progress
\* listener recorded in _plistener is removed
TCleanUp(ls) == ls \ {tAttempt}

\* _onLoadStart, run k times: each run arms a start timeout into _timeout
RECURSIVE OnLoadStart(_, _, _)
OnLoadStart(k, ts, h) ==
    IF k = 0 THEN [timers |-> ts, timeout |-> h]
    ELSE OnLoadStart(k - 1, SetTimeout(ts, "startTimeout", tAttempt, "positive"),
                     Handle(ts, "startTimeout", tAttempt, "positive"))

\* the trait as the listeners of one DOMContentLoaded leave it: _onReady
\* clears _timeout, emits ready and arms the load timeout; a _ready closure of
\* load() calls _load, which emits init, waits once for start and adds a new
\* progress listener
RECURSIVE RunDom(_, _)
RunDom(ls, st) ==
    IF ls = << >> THEN st
    ELSE IF Head(ls) = "onReady"
    THEN RunDom(Tail(ls),
            [st EXCEPT
               !.timers = SetTimeout(TClear(st.timers, st.timeout),
                                     "loadTimeout", st.attempt, "positive"),
               !.timeout = Handle(TClear(st.timers, st.timeout),
                                  "loadTimeout", st.attempt, "positive"),
               !.loadL = TRUE,
               !.seen = st.seen \cup {E_READY},
               !.last = Append(st.last, Ev(E_READY, st.attempt))])
    ELSE RunDom(Tail(ls),
            [st EXCEPT
               !.attempt = st.attempt + 1,
               !.listeners = st.listeners \cup {st.attempt + 1},
               !.onceStart = st.onceStart + 1,
               !.seen = {E_INIT},
               !.last = Append(st.last, Ev(E_INIT, st.attempt + 1))])

\* TabTrait.open(): the tab is there once addTab returned
TOpen ==
    /\ ~tTab
    /\ tTab' = TRUE
    /\ tLast' = << >>
    /\ UNCHANGED << tLoads, tAttempt, tListeners, tState, tOnceStart, tTimers,
                    tTimeout, tDomL, tLoadL, tSeen >>
    /\ UNCHANGED << engine, jarVars, winVars, authVars, applied, jars, sent,
                    globals, selVars >>

\* TabTrait.load(url): a _ready closure waits for DOMContentLoaded and
\* about:blank is loaded
TLoad ==
    /\ tTab
    /\ tLoads < MaxLoads
    /\ tLoads' = tLoads + 1
    /\ tDomL' = Append(tDomL, "ready")
    /\ tLast' = << >>
    /\ UNCHANGED << tTab, tAttempt, tListeners, tState, tOnceStart, tTimers,
                    tTimeout, tLoadL, tSeen >>
    /\ UNCHANGED << engine, jarVars, winVars, authVars, applied, jars, sent,
                    globals, selVars >>

\* the browser reports DOMContentLoaded: the listeners run in the order they
\* were added, and each removes itself
TDOMContentLoaded ==
    /\ tDomL # << >>
    /\ LET st == RunDom(tDomL,
                        [timers |-> tTimers, timeout |-> tTimeout,
                         loadL |-> tLoadL, attempt |-> tAttempt,
                         listeners |-> tListeners, onceStart |-> tOnceStart,
                         seen |-> tSeen, last |-> << >>])
       IN
        /\ tTimers' = st.timers
        /\ tTimeout' = st.timeout
        /\ tLoadL' = st.loadL
        /\ tAttempt' = st.attempt
        /\ tListeners' = st.listeners
        /\ tOnceStart' = st.onceStart
        /\ tSeen' = st.seen
        /\ tLast' = st.last
    /\ tDomL' = << >>
    /\ UNCHANGED << tTab, tLoads, tState >>
    /\ UNCHANGED << engine, jarVars, winVars, authVars, applied, jars, sent,
                    globals, selVars >>

\* ProgressListener.onStateChange(progress, request, flags, status) of the
\* listener l
OnStateChange(l, flags) ==
    /\ l \in tListeners
    /\ IF isStart(flags) /\ BeforeStart(tState[l])
       THEN \* start: every once('start') listener runs _onLoadStart
            LET run == OnLoadStart(tOnceStart, tTimers, tTimeout) IN
            /\ tState' = [tState EXCEPT ![l] = PL_START]
            /\ tTimers' = run.timers
            /\ tTimeout' = run.timeout
            /\ tDomL' = IF tOnceStart > 0 /\ "onReady" \notin Range(tDomL)
                        THEN Append(tDomL, "onReady") ELSE tDomL
            /\ tOnceStart' = 0
            /\ tSeen' = tSeen \cup {E_START}
            /\ tLast' = << Ev(E_START, l) >>
            /\ UNCHANGED tListeners
       ELSE IF isLoading(flags) /\ AtStart(tState[l])
       THEN /\ tState' = [tState EXCEPT ![l] = PL_INIT]
            /\ tSeen' = tSeen \cup {E_LOAD_START}
            /\ tLast' = << Ev(E_LOAD_START, l) >>
            /\ UNCHANGED << tTimers, tTimeout, tDomL, tOnceStart, tListeners >>
       ELSE IF isLoaded(flags) /\ BeforeStart(tState[l])
       THEN \* removeProgressListener(this), then loadFail and _cleanUp
            /\ tListeners' = TCleanUp(tListeners \ {l})
            /\ tSeen' = tSeen \cup {FAIL_OPEN}
            /\ tLast' = << Ev(FAIL_OPEN, l) >>
            /\ UNCHANGED << tState, tTimers, tTimeout, tDomL, tOnceStart >>
       ELSE /\ tLast' = << >>
            /\ UNCHANGED << tState, tTimers, tTimeout, tDomL, tOnceStart,
                            tListeners, tSeen >>
    /\ UNCHANGED << tTab, tLoads, tAttempt, tLoadL >>
    /\ UNCHANGED << engine, jarVars, winVars, authVars, applied, jars, sent,
                    globals, selVars >>

\* the window reports load: _onLoad removes the progress listener, clears
\* _timeout and arms the fullLoad timer
TOnLoad ==
    /\ tLoadL
    /\ tLoadL' = FALSE
    /\ tListeners' = tListeners \ {tAttempt}
    /\ tTimers' = SetTimeout(TClear(tTimers, tTimeout), "fullLoad", tAttempt,
                             "positive")
    /\ tTimeout' = NoTimer
    /\ tLast' = << >>
    /\ UNCHANGED << tTab, tLoads, tAttempt, tState, tOnceStart, tDomL, tSeen >>
    /\ UNCHANGED << engine, jarVars, winVars, authVars, applied, jars, sent,
                    globals, selVars >>

\* startTimeout: the start timeout expires
TStartTimeout(t) ==
    /\ t \in tTimers
    /\ t.fn = "startTimeout"
    /\ tTimers' = tTimers \ {t}
    /\ tDomL' = SelectSeq(tDomL, LAMBDA x : x # "onReady")
    /\ tListeners' = TCleanUp(tListeners)
    /\ tSeen' = tSeen \cup {FAIL_START}
    /\ tLast' = << Ev(FAIL_START, t.att) >>
    /\ UNCHANGED << tTab, tLoads, tAttempt, tState, tOnceStart, tTimeout,
                    tLoadL >>
    /\ UNCHANGED << engine, jarVars, winVars, authVars, applied, jars, sent,
                    globals, selVars >>

\* loadTimeout: the load timeout expires
TLoadTimeout(t) ==
    /\ t \in tTimers
    /\ t.fn = "loadTimeout"
    /\ tTimers' = tTimers \ {t}
    /\ tLoadL' = FALSE
    /\ tListeners' = TCleanUp(tListeners)
    /\ tSeen' = tSeen \cup {FAIL_LOAD}
    /\ tLast' = << Ev(FAIL_LOAD, t.att) >>
    /\ UNCHANGED << tTab, tLoads, tAttempt, tState, tOnceStart, tTimeout,
                    tDomL >>
    /\ UNCHANGED << engine, jarVars, winVars, authVars, applied, jars, sent,
                    globals, selVars >>

\* _onFullLoad: the loadWait delay after the window's load has passed
TOnFullLoad(t) ==
    /\ t \in tTimers
    /\ t.fn = "fullLoad"
    /\ tTimers' = tTimers \ {t}
    /\ tListeners' = TCleanUp(tListeners)
    /\ tSeen' = tSeen \cup {E_LOAD}
    /\ tLast' = << Ev(E_LOAD, t.att) >>
    /\ UNCHANGED << tTab, tLoads, tAttempt, tState, tOnceStart, tTimeout,
                    tDomL, tLoadL >>
    /\ UNCHANGED << engine, jarVars, winVars, authVars, applied, jars, sent,
                    globals, selVars >>

TraitNext ==
    \/ TOpen
    \/ TLoad
    \/ TDOMContentLoaded
    \/ \E l \in 1 .. MaxLoads : \E flags \in Flags : OnStateChange(l, flags)
    \/ TOnLoad
    \/ \E t \in tTimers : TStartTimeout(t)
    \/ \E t \in tTimers : TLoadTimeout(t)
    \/ \E t \in tTimers : TOnFullLoad(t)

TraitSpec == OneInit /\ [][TraitNext]_vars

\* ------------------------------------------------------------------ claims
Resolved(o) == deferred[o] \in {"success", "fail"}

Rank(e) ==
    CASE e = E_INIT -> 1
      [] e = E_START -> 2
      [] e = E_LOAD_START -> 3
      [] e = E_READY -> 4
      [] e = E_LOAD -> 5
      [] e = E_FULL_LOAD -> 6
      [] OTHER -> 7

\* The navigation timeouts (start and load) that are armed.
NavTimers == {t \in timers : t.fn \in {"startWait", "loadWait"}}

\* C1: every open() that returned a promise eventually resolves it with
\* 'success' or 'fail', whatever the caller and the host do, given that every
\* armed timer expires.
C1_OpenResolves ==
    (deferred[obs] = "pending") ~> Resolved(obs)

\* C2: an open() call is resolved only by an event of the attempt it started,
\* and a terminal event of another attempt never takes down the registrations
\* of the attempt it started.
C2_OwnAttemptOnly ==
    [][ /\ resolvedBy' \in {0, obs}
        /\ (pageProgress = obs /\ pageProgress' = 0 /\ tab')
              => last' \cap Terminal # {} ]_vars

\* C3: once close() has been called, no navigation event is emitted by an
\* attempt that was loading on the closed tab.
C3_SilentAfterClose ==
    dead => last = {}

\* C4: at most one navigation timeout is armed, and it is the one recorded in
\* Tab._timeout.
C4_OneTimeout ==
    /\ Cardinality(NavTimers) <= 1
    /\ NavTimers \subseteq {timeout}

\* C5: the phase events of one attempt are emitted in the order init, start,
\* loadStart, ready, load, fullLoad: none of them after a later one, none
\* twice.
C5_PhaseOrder ==
    [][ \A e \in last' \cap PhaseEvents :
            \A f \in emitted \cap PhaseEvents : Rank(f) < Rank(e) ]_vars

\* C6: once an attempt has emitted fullLoad or loadFail, its closures emit
\* nothing more.
C6_TerminalIsLast ==
    [][ (emitted \cap Terminal # {}) => last' = {} ]_vars

\* C7: with startTimeout = 0 an open() resolves 'fail' and its attempt never
\* emits ready.
C7_ZeroStartTimeoutFails ==
    (options.startTimeout = "zero") =>
        /\ [](E_READY \notin emitted /\ deferred[obs] # "success")
        /\ (deferred[obs] = "pending") ~> (deferred[obs] = "fail")

\* the timers of the observed attempt that run closure fn
Armed(ts, fn) == {t \in ts : t.fn = fn /\ t.att = obs}

\* C8: the load timeout is armed when ready is emitted and cancelled when the
\* load signal arrives, and loadFail('Load timeout') is never emitted after
\* load has been emitted for the same attempt.
C8_LoadTimeout ==
    [][ /\ E_READY \in last' =>
              (timeout' \in Armed(timers', "loadWait") /\ timeout'.delay = options.loadTimeout)
        /\ E_LOAD \in last' => Armed(timers', "loadWait") = {}
        /\ FAIL_LOAD \in last' => E_LOAD \notin emitted ]_vars

\* C9: the start timeout is armed at init and cleared when ready is reached,
\* loadFail('Start timeout') is never emitted after ready has been emitted in
\* the same attempt, and the expiry of the timer emits it.
C9_StartTimeout ==
    [][ /\ E_INIT \in last' =>
              \E t \in Armed(timers', "startWait") : t.delay = options.startTimeout
        /\ E_READY \in last' => Armed(timers', "startWait") = {}
        /\ FAIL_START \in last' => E_READY \notin emitted
        /\ \A t \in Armed(timers, "startWait") :
              StartWaitOf(t) => FAIL_START \in last' ]_vars

C9_Witness ==
    /\ E_READY \in last
    /\ E_INIT \in emitted
    /\ Armed(timers, "startWait") = {}
    /\ timeout \in Armed(timers, "loadWait")

\* C10: when the host reports a failed load to an attempt that has emitted
\* nothing but init (it is before start), the attempt emits
\* loadFail('Unable to open URL'), no timeout stays armed, open() is resolved
\* 'fail', and the attempt emits none of ready, load and fullLoad.
C10_UnableToOpen ==
    [][ /\ (pageProgress = obs /\ emitted \subseteq {E_INIT} /\ OnLoadFinished(FALSE))
              => /\ FAIL_OPEN \in last'
                 /\ timeout' = NoTimer
                 /\ Armed(timers', "startWait") \cup Armed(timers', "loadWait") = {}
                 /\ deferred'[obs] = "fail"
                 /\ emitted' \cap {E_READY, E_LOAD, E_FULL_LOAD} = {}
        /\ (emitted = {E_INIT, FAIL_OPEN})
              => last' \cap {E_READY, E_LOAD, E_FULL_LOAD} = {} ]_vars

\* C11: open() while the session is in state 'transfer' throws 'Transfer in
\* progress' and changes nothing: the state, the page text, the sandbox, the
\* outcome listeners and the attempt in flight (its listeners, timers and
\* registrations) are as before, and no open() is accepted in that state.
C11_TransferInProgress ==
    [][ /\ result' = "Transfer in progress" =>
              /\ state = "transfer"
              /\ UNCHANGED << pageVars, sessVars, tabVars, timeout, timers,
                              netLog, pageProgress, doc, calls, emitted >>
        /\ state = "transfer" => calls' = calls ]_vars

C11_Witness ==
    /\ result = "Transfer in progress"
    /\ state = "transfer"
    /\ plainText # << >>
    /\ sandbox
    /\ netLog # 0
    /\ timers # {}

\* C12: while the session is closed (close() has resolved, or open() was never
\* called) it has no tab, and evaluate, evaluateAsync, includeJS, injectJS,
\* renderBase64, plainText, url and foreground each fail with 'webpage not
\* opened' and create no sandbox.
C12_NotOpened ==
    [][ /\ state = "closed" => ~tab
        /\ \A op \in TabOps :
              (state = "closed" /\ TabOp(op))
                  => (result' = "webpage not opened" /\ ~sandbox') ]_vars

C12_Witness ==
    /\ result = "webpage not opened"
    /\ state = "closed"
    /\ calls > 0
    /\ ~sandbox

Relayed == OnRequest \/ \E body \in BOOLEAN : OnResponse(body)

\* C14: the interceptor is registered by the _load of a load() call, once for
\* the call, and is unregistered when fullLoad or loadFail is emitted and by
\* close(); resourceRequested and resourceReceived are relayed only for an
\* attempt that has emitted init and no terminal event on a tab that was not
\* closed since, and never while a load() call awaits its about:blank
\* document.
C14_InterceptorScope ==
    [][ /\ (netLog' # 0 /\ netLog' # netLog) => netLog' \in Range(readyL)
        /\ (netLog' = obs /\ netLog # obs) =>
              (E_INIT \in last' /\ E_INIT \notin emitted)
        /\ (last' \cap Terminal # {} \/ Close) => netLog' = 0
        /\ Relayed =>
              /\ netLog \in Loaded
              /\ readyL = << >> /\ doc.kind # "blank"
              /\ netLog = obs =>
                    (E_INIT \in emitted /\ emitted \cap Terminal = {} /\ ~dead)
      ]_vars

\* C15: the navigation of a load() call (init, start timer, interceptor
\* registration) starts only in the step in which the about:blank document
\* requested by that same load() call reports DOMContentLoaded.
C15_BlankFirst ==
    [][ ( \/ E_INIT \in last'
          \/ netLog' = obs /\ netLog # obs
          \/ Armed(timers', "startWait") \ Armed(timers, "startWait") # {} )
        => doc = BlankDoc(obs) ]_vars

\* C16: two sessions of one window never hold the same tab, each holds a tab
\* of the window or none, and a step taken by one session or by the user
\* (with the TabOpen or TabClose it causes) leaves the tab handle of the
\* other session as it was and makes it emit neither open nor close.
C16_NoInterference ==
    [][ \A s \in Sessions :
          /\ tabHandle'[s] # 0 => tabHandle'[s] \in winTabs'
          /\ \A o \in Sessions \ {s} :
                tabHandle'[s] # 0 => tabHandle'[o] # tabHandle'[s]
          /\ actor' # s =>
                (tabHandle'[s] = tabHandle[s] /\ sessEvent'[s] = "none") ]_vars

C16_Witness ==
    /\ tabHandle[1] # 0
    /\ tabHandle[2] = 0
    /\ actor = 2
    /\ sessEvent[2] = "close"
    /\ tabsMade >= 3
    /\ Cardinality(winTabs) >= 2

\* C17: a request of a session whose userName and password are set carries
\* 'Authorization: Basic base64(user:pass)' when it is the main-document
\* request or a sub-resource request to the scheme, host and port of the
\* page; a sub-resource request that differs in scheme, host or port carries
\* no Authorization header; a request of a session without credentials never
\* carries one, whatever the other session's settings are.
C17_AuthScope ==
    [][ request' # request =>
          LET r == request'
              c == settings[r.sess]
              base == pageUrl[r.sess]
              own == << "Basic", Base64(<< c.userName, ":", c.password >>) >>
          IN
           /\ (c.userName # Null /\ c.password # Null) =>
                 /\ r.main => r.auth = own
                 /\ (~r.main /\ r.url = base) => r.auth = own
                 /\ (~r.main /\ ( \/ r.url.scheme # base.scheme
                                  \/ r.url.host # base.host
                                  \/ r.url.port # base.port ))
                       => r.auth = NoHeader
           /\ c = NoCredentials => r.auth = NoHeader ]_vars

C17_Witness ==
    /\ request.sess = 2
    /\ request.auth = NoHeader
    /\ settings[2] = NoCredentials
    /\ settings[1] = [userName |-> "foo", password |-> "bar"]
    /\ pageUrl[1] = pageUrl[2]
    /\ pageUrl[1] # AboutBlank
    /\ request.url = pageUrl[1]

\* the cookies of jar j named n
Named(j, n) == SelectSeq(j, LAMBDA v : v.name = n)

\* C18: the jar never holds two cookies of one name; addCookie of a valid
\* cookie whose name is in the jar leaves exactly one cookie of that name,
\* with the new value, and the other cookies as they were, in the same order.
C18_OnePerName ==
    [][ /\ \A n \in CookieNames : Len(Named(jar', n)) <= 1
        /\ \A f \in CallerCookies :
              (ValidCookie(f) /\ Named(jar, f.name) # << >> /\ AddCookie(f)) =>
                 /\ Len(Named(jar', f.name)) = 1
                 /\ Named(jar', f.name)[1].value = f.value
                 /\ SelectSeq(jar', LAMBDA v : v.name # f.name)
                       = SelectSeq(jar, LAMBDA v : v.name # f.name) ]_vars

C18_Witness ==
    /\ Len(jar) = 2
    /\ jar[1].name = "woot" /\ jar[1].domain = "localhost"
    /\ jar[2].name = "foo" /\ jar[2].value = "foo2" /\ jar[2].httponly
    /\ jarResult = "true"

\* C19: addCookie of a cookie without a name, without a value or without a
\* domain throws and leaves the jar as it was.
C19_InvalidCookie ==
    [][ \A f \in CallerCookies :
          (AddCookie(f) /\ (f.name = Null \/ f.value = Null \/ f.domain = Null))
             => (jarResult' = "InvalidCookie" /\ jar' = jar) ]_vars

C19_Witness ==
    /\ jarResult = "InvalidCookie"
    /\ Len(jar) = 2
    /\ jar[1].name = "foo"

\* C20: assigning to cookies a list that holds an invalid cookie throws and
\* leaves the jar with the cookies it had, in the same order.
C20_SetterRestores ==
    [][ (jar' # jar \/ jarResult' \notin {"TypeError", "InvalidCookie"}) =>
          \A values \in Lists(CallerCookies) :
             (\E i \in DOMAIN values : ~ValidCookie(values[i]))
                => ~SetCookies(values) ]_vars

C20_Witness ==
    /\ jarResult = "TypeError"
    /\ Len(jar) = 2
    /\ jar[1].name = "foo"
    /\ jar[2].name = "woot"

\* C21: deleteCookie(name) returns without an error and leaves the jar with
\* the cookies of other names, in the same order, and without the cookie named
\* name.
C21_DeleteCookie ==
    [][ \A n \in CookieNames :
          DeleteCookie(n) =>
             /\ jarResult' = "undefined"
             /\ jar' = WithoutName(jar, n) ]_vars

\* C22: a cookie of domain '.example.com' matches example.com and its
\* subdomains www.example.com and images.example.com and does not match
\* www.testexample.com; a cookie of domain 'example.org', without a leading
\* dot, matches example.org and does not match www.example.org.
C22_DomainRule ==
    (applied.fn = "check" /\ applied.cookie.path = "/" /\ ~applied.cookie.secure)
    => /\ applied.cookie.domain = ".example.com" =>
             (applied.value <=>
                 applied.url.host \in {"example.com", "www.example.com",
                                       "images.example.com"})
       /\ applied.cookie.domain = "example.org" =>
             (applied.value <=> applied.url.host = "example.org")

C22_Witness ==
    /\ applied.fn = "check"
    /\ applied.cookie.domain = ".example.com"
    /\ applied.cookie.path = "/"
    /\ applied.url.host = "www.testexample.com"
    /\ ~applied.value

\* C23: on a host the cookie's domain matches, a cookie of path '/test/'
\* matches the paths '/test/' and '/test/foo' and does not match '/', and a
\* cookie created without a path (its path is '/') matches every path.
C23_PathRule ==
    ( /\ applied.fn = "check"
      /\ applied.cookie.domain = "example.org"
      /\ applied.url.host = "example.org"
      /\ ~applied.cookie.secure )
    => /\ applied.cookie.path = "/test/" =>
             (applied.value <=> applied.url.path \in {"/test/", "/test/foo"})
       /\ applied.cookie.path = "/" => applied.value

C23_Witness ==
    /\ applied.fn = "check"
    /\ applied.cookie.domain = "example.org"
    /\ applied.url.host = "example.org"
    /\ applied.cookie.path = "/test/"
    /\ applied.url.path = "/test/foo"
    /\ applied.value

\* C24: the cookie parsed from a Set-Cookie header has secure = true exactly
\* when the header has the secure attribute and the scheme of the response's
\* url is https; parsed for an http response, the same header gives
\* secure = false.
C24_SecureDowngrade ==
    applied.fn = "parseCookie" =>
       /\ applied.value.secure <=>
             /\ \E i \in 2 .. Len(applied.header) :
                   applied.header[i][1] \in {"secure", "Secure"}
             /\ applied.url.scheme = "https"
       /\ applied.url.scheme = "http" => ~applied.value.secure

C24_Witness ==
    /\ applied.fn = "parseCookie"
    /\ applied.header = << << "W", "1" >>, << "path", "/test/" >>,
                           << "secure", "" >>, << "HttpOnly", "" >> >>
    /\ applied.url = Location("http", "www.example.org", "/")
    /\ ~applied.value.secure
    /\ applied.value.httponly
    /\ applied.value.domain = "www.example.org"
    /\ applied.value.path = "/test/"

\* by the domain rule and the path rule, cookie c of a session's jar is to be
\* sent to u, for the cookies and urls of the two sessions
Belongs(c, u) ==
    /\ \/ c.domain = ".example.com" /\ u.host = "www.example.com"
       \/ c.domain = u.host
    /\ c.path = "/" \/ c.path = u.path

\* C25: the Cookie header of a request is made of the cookies of the jar of
\* the session the request belongs to that match the url of the request, and
\* of nothing else, as 'name=value' joined by '; ' in the order of the jar; a
\* request of a session whose jar is empty has no Cookie header, whatever the
\* other session's jar holds.
C25_OwnCookiesOnly ==
    [][ \A s \in Sessions, u \in WireUrls :
          PageRequest(s, u) =>
             LET own == SelectSeq(jars[s], LAMBDA c : Belongs(c, u))
                 h == sent'.cookie
             IN
              /\ Len(h) = IF own = << >> THEN 0 ELSE 4 * Len(own) - 1
              /\ \A i \in DOMAIN own :
                    /\ h[4 * i - 3] = own[i].name
                    /\ h[4 * i - 2] = "="
                    /\ h[4 * i - 1] = own[i].value
              /\ \A i \in 1 .. Len(own) - 1 : h[4 * i] = "; "
              /\ jars[s] = << >> => h = NoHeader ]_vars

C25_Witness ==
    /\ sent.sess = 1
    /\ sent.url = Location("http", "localhost", "/cookie")
    /\ sent.cookie = << "woot", "=", "foo2", "; ", "myCookie", "=", "foo-bar" >>
    /\ Len(jars[1]) = 3
    /\ jars[2] = << >>

\* C26: a response to the tab of a session leaves, for every Set-Cookie header
\* it has, exactly one cookie of the header's name in the jar of that session,
\* with the header's value, the host of the response as its domain and the
\* path the header gives; the cookies of other names stay, in order, and the
\* jar of the other session is as it was.
C26_HarvestOwnJar ==
    [][ jars' # jars =>
        \A s \in Sessions, u \in WireUrls, hs \in Lists(WireHeaders) :
          PageResponse(s, u, hs) =>
             /\ \A i \in DOMAIN hs :
                   LET got == Named(jars'[s], hs[i][1][1]) IN
                    /\ Len(got) = 1
                    /\ got[1].value = hs[i][1][2]
                    /\ got[1].domain = u.host
                    /\ \E k \in 2 .. Len(hs[i]) :
                          hs[i][k] = << "path", got[1].path >>
             /\ \A n \in CookieNames :
                   Named(jars'[s], n) = Named(jars[s], n)
             /\ \A o \in Sessions \ {s} : jars'[o] = jars[o] ]_vars

C26_Witness ==
    /\ Len(jars[1]) = 2
    /\ jars[1][2].name = "myCookie"
    /\ jars[1][2].domain = "localhost"
    /\ jars[1][2].path = "/cookie"
    /\ ~jars[1][2].httponly
    /\ Len(jars[2]) = 1
    /\ jars[2][1].name = "myCookie"
    /\ jars[2][1].domain = "www.example.com"

\* C27: the page text holds only data of the main document of the url of the
\* latest accepted open(), in the order of arrival: every accepted open() and
\* every close() empties it, and a chunk that arrives is appended to it and
\* is data of that url.
C27_PlainText ==
    [][ /\ (calls' # calls \/ Close) => plainText' = << >>
        /\ OnResponse(TRUE) => plainText' = Append(plainText, calls)
        /\ \A i \in DOMAIN plainText' : plainText'[i] = calls' ]_vars

\* C28: assigning globals while the session has a sandbox (evaluate,
\* evaluateAsync, includeJS or injectJS was called since the last open() or
\* close()) throws and leaves the globals as they were; assigning them while
\* it has none stores the value; every accepted open() and every close()
\* leaves the session without a sandbox, so that the next assignment is legal.
C28_GlobalsBeforeEvaluate ==
    [][ /\ \A value \in GlobalsValues :
              SetGlobals(value) =>
                 IF sandbox
                 THEN /\ globals' = globals
                      /\ result' = "Cannot add globals after the first evaluation call"
                 ELSE globals' = value /\ result' = "undefined"
        /\ (calls' # calls \/ Close) => ~sandbox'
        /\ globals' # globals => ~sandbox ]_vars

C28_Witness ==
    /\ result = "Cannot add globals after the first evaluation call"
    /\ sandbox
    /\ globals = "test"
    /\ calls = 2
    /\ state = "complete"

\* C29: every foreground() call on an open tab makes the Tab emit select
\* exactly once: in the call itself when the tab is the selected one, and
\* otherwise in a step in which the host dispatches TabSelect, by the one
\* listener the call left (seen in the steps that change the selection, the
\* listeners, the promises or the events emitted); and every foreground()
\* promise is resolved in the end.
C29_SelectOnce ==
    /\ [][ selVars' # selVars => \A s \in Sessions :
             /\ selectEmits'[s] + selectL'[s]
                   = selectL[s] + (IF Foreground(s) THEN 1 ELSE 0)
             /\ (Foreground(s) /\ selectedTab = tabHandle[s]) =>
                   (selectEmits'[s] = 1 /\ foregrounds'[s] = 0)
             /\ selectEmits'[s] > 0 =>
                   \/ Foreground(s) /\ selectedTab = tabHandle[s]
                   \/ selectedTab' # selectedTab
                   \/ tabSelects' < tabSelects ]_vars
    /\ \A s \in Sessions : (foregrounds[s] > 0) ~> (foregrounds[s] = 0)

C29_Witness ==
    /\ selectEmits[1] = 1
    /\ selectEmits[2] = 1
    /\ foregrounds = [s \in Sessions |-> 0]
    /\ selectL = [s \in Sessions |-> 0]
    /\ tabSelects = 1
    /\ selectedTab = tabHandle[2]

\* the observed attempt was closed, or another open() was accepted after it
Abandoned == dead \/ state = "closed" \/ calls > obs

\* C30: an attempt that is neither closed nor superseded emits fullLoad or
\* loadFail in the end, and not a second one of them, whatever progress
\* signals the host sends or withholds, given that the blank document settles
\* and every armed timer expires.
C30_OneTerminal ==
    /\ [][ (emitted \cap Terminal # {} /\ ~Abandoned') =>
              last' \cap Terminal = {} ]_vars
    /\ (calls >= obs) ~> (emitted \cap Terminal # {} \/ Abandoned)

\* the startWait timers armed for the attempts as
StartTimersOf(ts, as) == {t \in ts : t.fn = "startWait" /\ t.att \in as}

\* C31: when about:blank settles with two or more load() calls waiting for
\* it, only the latest of them is carried out: it alone emits init and arms a
\* start timer, and the one interceptor registration is its own.
C31_LoadSupersedes ==
    [][ (DOMContentLoaded /\ Len(readyL) >= 2) =>
          /\ \A t \in StartTimersOf(timers', Range(readyL)) :
                t.att = Last(readyL) /\ t.n = 1
          /\ netLog' = Last(readyL)
          /\ (obs \in Range(readyL) /\ obs # Last(readyL)) =>
                E_INIT \notin last' ]_vars

\* C32: an open() made without a tab has its load() issued when the tab it
\* opened reports openReady, and only that one: no init before, exactly its
\* own load() issued by openReady, and init emitted once.
C32_OpenThenLoad ==
    [][ /\ (obs \in Range(onceOpenReady)) => E_INIT \notin emitted
        /\ (DOMContentLoaded /\ onOpenReady /\ onceOpenReady # << >>
                /\ obs = Last(onceOpenReady)) => readyL' = << obs >>
        /\ (E_INIT \in emitted) => E_INIT \notin last' ]_vars

\* the loadFinished events the session emits for the Tab events evs: 'success'
\* for fullLoad, 'fail' for loadFail
LoadFinished(evs) ==
    {IF e = E_FULL_LOAD THEN "success" ELSE "fail" : e \in evs \cap Terminal}

\* C33: the step that resolves an open() emits loadFinished with the status
\* of the promise for its attempt, the attempt has no loadFinished before or
\* after that one, and its loadFinished comes with an open() being resolved.
C33_LoadFinishedMatches ==
    [][ /\ (deferred[obs] = "pending" /\ Resolved(obs)') =>
              LoadFinished(last') = {deferred'[obs]}
        /\ (emitted \cap Terminal # {}) => LoadFinished(last') = {}
        /\ (LoadFinished(last') # {}) =>
              \E o \in Calls : deferred[o] = "pending" /\ Resolved(o)' ]_vars

\* C34: the state of the session is 'closed', 'transfer' or 'complete'; it is
\* 'transfer' exactly while an open() promise is unresolved; and it is
\* 'closed' whenever the session has no tab.
C34_StateTracksPromise ==
    /\ state \in {"closed", "transfer", "complete"}
    /\ (state = "transfer") <=> (\E o \in Calls : deferred[o] = "pending")
    /\ ~tab => state = "closed"

\* C35: assigning to cookies a list of valid cookies returns without an error
\* and leaves in the jar those cookies, one per name, the last of a name in
\* the place of its last occurrence; an empty list (what a value that is not
\* an array is taken for) leaves the jar empty.
C35_SetterReplaces ==
    [][ \A values \in Lists(CallerCookies) :
          ((\A i \in DOMAIN values : ValidCookie(values[i]))
                /\ SetCookies(values)) =>
             /\ jarResult' = "undefined"
             /\ jar' = AddedAll(<< >>, values) ]_vars

\* C36: a progress listener emits start only from a state before START,
\* which it leaves for START; loadStart only from START, which it leaves for
\* INIT; loadFail 'Unable to open URL' only from a state before START; and
\* its state never goes back, so start and loadStart are emitted at most once
\* and loadStart only after start, whatever flags the host reports and how
\* often.
C36_GuardedByState ==
    [][ /\ \A i \in DOMAIN tLast' :
             LET e == tLast'[i] IN
              /\ e.ev = E_START =>
                    (tState[e.by] < PL_START /\ tState'[e.by] = PL_START)
              /\ e.ev = E_LOAD_START =>
                    (tState[e.by] = PL_START /\ tState'[e.by] = PL_INIT)
              /\ e.ev = FAIL_OPEN =>
                    (tState[e.by] < PL_START /\ tState'[e.by] < PL_START)
        /\ \A l \in 1 .. MaxLoads : tState'[l] >= tState[l] ]_vars

C36_Witness ==
    /\ tState[1] = PL_INIT
    /\ tState[2] = 0
    /\ tLast = << Ev(FAIL_OPEN, 2) >>

\* the start timeouts armed for attempt a
StartTimeouts(ts, a) == {t \in ts : t.fn = "startTimeout" /\ t.att = a}

\* C37: when the progress listener of the current attempt emits start, one
\* start timeout is armed and no other is; no start timeout of the attempt is
\* left armed by the step that emits ready; and no start timeout of the
\* attempt expires after its ready or load.
C37_OneStartTimeout ==
    [][ /\ tLast' = << Ev(E_START, tAttempt) >> =>
              Cardinality(StartTimeouts(tTimers', tAttempt)) = 1
        /\ (\E i \in DOMAIN tLast' : tLast'[i].ev = E_READY) =>
              StartTimeouts(tTimers', tAttempt') = {}
        /\ tLast' = << Ev(FAIL_START, tAttempt) >> =>
              (E_READY \notin tSeen /\ E_LOAD \notin tSeen) ]_vars

====
